---- MODULE Spec2Model ----
(***************************************************************************)
(* Lattice-protein thermodynamic scoring (latticegpm): the contact walk of *)
(* thermo.lattice_contacts / utils.lattice_contacts, fold_energy, the      *)
(* ensemble functions of thermo.py and the lazily cached                   *)
(* LatticeThermodynamics object.                                           *)
(*                                                                         *)
(* Numbers.  Energies and temperatures are integers in hundredths of the   *)
(* energy unit.  A Boltzmann weight exp(-E/T) is kept exactly, as the      *)
(* reduced fraction <<n, d>> of its exponent; a sum of weights is the bag  *)
(* of its terms (powers of e with distinct rational exponents are linearly *)
(* independent over the rationals, so two sums are equal as reals exactly  *)
(* when their bags are equal).  Floating-point rounding is not modelled.   *)
(***************************************************************************)
EXTENDS Integers, Sequences, FiniteSets, Bags, TLC

\* ------------------------------------------------------------- bounds
MaxLen == 4
MaxConfs == 3
MaxTemp == 2
MaxSets == 1
MaxIter == 2

\* -------------------------------------------------------------- state
\* call : the function being called and its arguments (a pending or finished
\*        call of one of the module-level functions);
\* self : the attributes of one LatticeThermodynamics object, by name;
\* ret  : what the last call or attribute read returned or raised;
\* pc   : "ready" before the first call or read, "done" after it;
\* nsets: the number of attribute assignments made to the object.
VARIABLES call, self, ret, pc, nsets
vars == <<call, self, ret, pc, nsets>>

\* -------------------------------------------------------- python values
\* The conformation None (no native state); every other conformation is a
\* sequence of move symbols.
None == <<"None">>
Moves == {"U", "D", "L", "R"}
\* numpy's empty cell of a dtype=str grid.
Empty == ""

Ok(v) == [err |-> "none", val |-> v]
Raise(e) == [err |-> e, val |-> <<>>]

\* Python's s[i] for a 0-based i inside the sequence.
At(s, i) == s[i + 1]

\* ------------------------------------------------- interaction tables
\* latticeproteins.interactions.miyazawa_jernigan restricted to the residue
\* symbols H and P: a dict keyed by both orders of every pair.
Alphabet == {"H", "P"}
miyazawa_jernigan ==
    [p \in Alphabet \X Alphabet |->
        IF p = <<"H", "H">> THEN -305
        ELSE IF p = <<"P", "P">> THEN -175
        ELSE -225]
\* An alternate table a caller may pass: the HP model {HH: -1, others 0}.
hp_table ==
    [p \in Alphabet \X Alphabet |->
        IF p = <<"H", "H">> THEN -100 ELSE 0]

\* ------------------------------------------------------- the lattice
\* Mutant of coordinates: the move L steps the way R does.
coordinates_no_left(m) ==
    CASE m = "U" -> <<-1, 0>>
      [] m = "D" -> <<1, 0>>
      [] m = "L" -> <<0, 1>>
      [] m = "R" -> <<0, 1>>

\* coordinates = {"U": [-1,0], "D": [1,0], "L": [0,-1], "R": [0,1]}
coordinates(m) ==
    CASE m = "U" -> <<-1, 0>>
      [] m = "D" -> <<1, 0>>
      [] m = "L" -> <<0, -1>>
      [] m = "R" -> <<0, 1>>
\* coordinates.values(), in the dict's order.
coordinate_values == << <<-1, 0>>, <<1, 0>>, <<0, -1>>, <<0, 1>> >>

\* Python 3's round(length / 2.0): halves round to the even integer.
RoundHalf(length) ==
    IF length % 2 = 0 THEN length \div 2
    ELSE LET k == (length - 1) \div 2
         IN  IF k % 2 = 0 THEN k ELSE k + 1

\* numpy's index rule on an axis of `side` cells: -side..side-1 are valid and
\* a negative index counts from the end; anything else is an IndexError.
InRange(idx, side) == idx >= -side /\ idx < side
Norm(idx, side) == IF idx < 0 THEN idx + side ELSE idx

\* np.zeros((side, side), dtype=str)
zeros(side) == [c \in (0 .. side - 1) \X (0 .. side - 1) |-> Empty]

\* ------------------------------------------- lattice_contacts: the walk
\* State of the walk: the grid, the position, the candidate contacts so far
\* and the exception raised, if any.
walk_start(sites, side) ==
    LET x == RoundHalf(Len(sites))
    IN  [grid |-> [zeros(side) EXCEPT ![<<x, x>>] = At(sites, 0)],
         x |-> x, y |-> x, contacts |-> <<>>, err |-> "none"]

\* One pass of `for i in range(length-1)`: move, write the residue, read the
\* four neighbours, keep the pairs that are keys of miyazawa_jernigan.
walk_step(st, sites, moves, i, side) ==
    IF st.err # "none" THEN st
    ELSE IF i >= Len(moves) THEN [st EXCEPT !.err = "IndexError"]
    ELSE
      LET step == coordinates(At(moves, i))
          x == st.x + step[1]
          y == st.y + step[2]
      IN  IF ~(InRange(x, side) /\ InRange(y, side))
          THEN [st EXCEPT !.err = "IndexError"]
          ELSE
            LET grid == [st.grid EXCEPT
                           ![<<Norm(x, side), Norm(y, side)>>] = At(sites, i + 1)]
                inside == \A k \in 1 .. 4 :
                            /\ InRange(x + coordinate_values[k][1], side)
                            /\ InRange(y + coordinate_values[k][2], side)
                neighbors ==
                    [k \in 1 .. 4 |->
                        <<At(sites, i + 1),
                          grid[<<Norm(x + coordinate_values[k][1], side),
                                 Norm(y + coordinate_values[k][2], side)>>]>>]
                kept == SelectSeq(neighbors,
                                  LAMBDA n : n \in DOMAIN miyazawa_jernigan)
            IN  IF ~inside
                THEN [grid |-> grid, x |-> x, y |-> y,
                      contacts |-> st.contacts, err |-> "IndexError"]
                ELSE [grid |-> grid, x |-> x, y |-> y,
                      contacts |-> st.contacts \o kept, err |-> "none"]

RECURSIVE walk_loop(_, _, _, _, _)
walk_loop(st, sites, moves, i, side) ==
    IF i >= Len(sites) - 1 THEN st
    ELSE walk_loop(walk_step(st, sites, moves, i, side), sites, moves, i + 1, side)

\* ------------------------------- lattice_contacts: the covalent bonds
Has(s, e) == \E k \in 1 .. Len(s) : s[k] = e
\* list.remove(e) on a list that holds e: the first occurrence goes.
RemoveFirst(s, e) ==
    LET k == CHOOSE j \in 1 .. Len(s) :
                 s[j] = e /\ \A h \in 1 .. j - 1 : s[h] # e
    IN  SubSeq(s, 1, k - 1) \o SubSeq(s, k + 1, Len(s))

\* Mutant of remove_step: the bond's symbol pair is filtered out of the list,
\* every occurrence of it, instead of removed once.
remove_step_all(r, sequence, i) ==
    LET fwd == <<At(sequence, i - 1), At(sequence, i)>>
        rev == <<At(sequence, i), At(sequence, i - 1)>>
    IN  IF r.err # "none" THEN r
        ELSE IF Has(r.val, fwd) THEN Ok(SelectSeq(r.val, LAMBDA c : c # fwd))
        ELSE IF Has(r.val, rev) THEN Ok(SelectSeq(r.val, LAMBDA c : c # rev))
        ELSE Raise("ValueError")

\* Mutant of remove_step: when sequence[i-1:i+1] is not in the list the bond is
\* skipped (except ValueError: pass), the reverse pair is not removed.
remove_step_forward_only(r, sequence, i) ==
    LET fwd == <<At(sequence, i - 1), At(sequence, i)>>
    IN  IF r.err # "none" THEN r
        ELSE IF Has(r.val, fwd) THEN Ok(RemoveFirst(r.val, fwd))
        ELSE r

\* Mutant of remove_step: no `except ValueError` branch, the reverse pair is
\* never tried.
remove_step_no_fallback(r, sequence, i) ==
    LET fwd == <<At(sequence, i - 1), At(sequence, i)>>
    IN  IF r.err # "none" THEN r
        ELSE IF Has(r.val, fwd) THEN Ok(RemoveFirst(r.val, fwd))
        ELSE Raise("ValueError")

\* One pass of `for i in range(1, length)`: remove sequence[i-1:i+1], and if
\* that raises ValueError remove sequence[i] + sequence[i-1].
remove_step(r, sequence, i) ==
    LET fwd == <<At(sequence, i - 1), At(sequence, i)>>
        rev == <<At(sequence, i), At(sequence, i - 1)>>
    IN  IF r.err # "none" THEN r
        ELSE IF Has(r.val, fwd) THEN Ok(RemoveFirst(r.val, fwd))
        ELSE IF Has(r.val, rev) THEN Ok(RemoveFirst(r.val, rev))
        ELSE Raise("ValueError")

\* Mutant of remove_loop: the loop over the bonds starts one bond late.
RECURSIVE remove_loop_from2(_, _, _)
remove_loop_from2(r, sequence, i) ==
    IF i >= Len(sequence) THEN r
    ELSE IF i = 1 THEN remove_loop_from2(r, sequence, 2)
    ELSE remove_loop_from2(remove_step(r, sequence, i), sequence, i + 1)

RECURSIVE remove_loop(_, _, _)
remove_loop(r, sequence, i) ==
    IF i >= Len(sequence) THEN r
    ELSE remove_loop(remove_step(r, sequence, i), sequence, i + 1)

\* The candidate contacts of the walk, before the covalent bonds are removed.
candidates(sequence, conformation, side) ==
    LET st == walk_loop(walk_start(sequence, side), sequence, conformation, 0, side)
    IN  IF st.err # "none" THEN Raise(st.err) ELSE Ok(st.contacts)

\* lattice_contacts on a grid of `side` cells a side; `conf_error` is what the
\* name ConformationError resolves to in the calling module.
contacts_on_grid(sequence, conformation, side, conf_error) ==
    IF conformation = None THEN Raise(conf_error)
    ELSE remove_loop(candidates(sequence, conformation, side), sequence, 1)

\* thermo.py never imports or defines ConformationError: evaluating the raise
\* statement raises NameError.
thermo_ConformationError == "NameError"
\* utils.py defines the class.
utils_ConformationError == "ConformationError"

\* thermo.lattice_contacts
lattice_contacts(sequence, conformation) ==
    contacts_on_grid(sequence, conformation, 2 * Len(sequence) + 1,
                     thermo_ConformationError)

\* utils.lattice_contacts
utils_lattice_contacts(sequence, conformation) ==
    contacts_on_grid(sequence, conformation, Len(sequence),
                     utils_ConformationError)

\* sum([...]) of a list of numbers.
RECURSIVE SumSeq(_)
SumSeq(s) == IF s = <<>> THEN 0 ELSE s[1] + SumSeq(Tail(s))

\* sum([interactions[c] for c in contacts]); a contact that is no key of
\* `interactions` raises KeyError.
score(r, interactions) ==
    IF r.err # "none" THEN r
    ELSE IF \E k \in 1 .. Len(r.val) : r.val[k] \notin DOMAIN interactions
    THEN Raise("KeyError")
    ELSE Ok(SumSeq([k \in 1 .. Len(r.val) |-> interactions[r.val[k]]]))

\* thermo.fold_energy
fold_energy(sequence, conformation, interactions) ==
    score(lattice_contacts(sequence, conformation), interactions)

\* utils.fold_energy
utils_fold_energy(sequence, conformation) ==
    score(utils_lattice_contacts(sequence, conformation), miyazawa_jernigan)

\* ------------------------------------------------ calls of the scorer
\* All sequences over S of the lengths lo..hi.
SeqsOf(S, lo, hi) == UNION {[1 .. n -> S] : n \in lo .. hi}

\* A residue symbol that no key of miyazawa_jernigan holds.
OffTable == "X"
\* The sequences scored: all over the table's alphabet, and the short ones
\* that may hold the symbol outside it.
Sequences ==
    SeqsOf(Alphabet, 2, MaxLen) \cup SeqsOf(Alphabet \cup {OffTable}, 2, MaxLen - 2)
\* Conformations offered for a sequence: None, and every string of moves from
\* two moves short to one move too many.
ConformationsFor(sequence) ==
    {None} \cup SeqsOf(Moves, Len(sequence) - 2, Len(sequence))
Tables == {miyazawa_jernigan, hp_table}

NoObject == [none |-> TRUE]
NoCall == [fn |-> "none"]
NoRet == [err |-> "pending", val |-> <<>>]

InitFold ==
    /\ \E sequence \in Sequences :
         \E conformation \in ConformationsFor(sequence) :
           call = [fn |-> "none", sequence |-> sequence,
                   conformation |-> conformation]
    /\ self = NoObject
    /\ nsets = 0
    /\ ret = NoRet
    /\ pc = "ready"

CallLatticeContacts ==
    /\ pc = "ready"
    /\ call' = [call EXCEPT !.fn = "thermo.lattice_contacts"]
    /\ ret' = lattice_contacts(call.sequence, call.conformation)
    /\ pc' = "done"
    /\ UNCHANGED <<self, nsets>>

CallFoldEnergy ==
    /\ pc = "ready"
    /\ \E interactions \in Tables :
         /\ call' = [fn |-> "thermo.fold_energy", sequence |-> call.sequence,
                     conformation |-> call.conformation,
                     interactions |-> interactions]
         /\ ret' = fold_energy(call.sequence, call.conformation, interactions)
    /\ pc' = "done"
    /\ UNCHANGED <<self, nsets>>

CallUtilsLatticeContacts ==
    /\ pc = "ready"
    /\ call' = [call EXCEPT !.fn = "utils.lattice_contacts"]
    /\ ret' = utils_lattice_contacts(call.sequence, call.conformation)
    /\ pc' = "done"
    /\ UNCHANGED <<self, nsets>>

CallUtilsFoldEnergy ==
    /\ pc = "ready"
    /\ call' = [call EXCEPT !.fn = "utils.fold_energy"]
    /\ ret' = utils_fold_energy(call.sequence, call.conformation)
    /\ pc' = "done"
    /\ UNCHANGED <<self, nsets>>

NextFold ==
    \/ CallLatticeContacts
    \/ CallFoldEnergy
    \/ CallUtilsLatticeContacts
    \/ CallUtilsFoldEnergy

SpecFold == InitFold /\ [][NextFold]_vars

\* ------------------------------------------- geometry of a conformation
\* The cell of residue k (0-based) on the unbounded integer lattice, the walk
\* starting at the origin.
RECURSIVE Cell(_, _)
Cell(conformation, k) ==
    IF k = 0 THEN <<0, 0>>
    ELSE LET p == Cell(conformation, k - 1)
             c == coordinates(conformation[k])
         IN  <<p[1] + c[1], p[2] + c[2]>>

Abs(n) == IF n < 0 THEN -n ELSE n
UnitDistance(p, q) == Abs(p[1] - q[1]) + Abs(p[2] - q[2]) = 1

SelfAvoiding(conformation) ==
    \A i, j \in 0 .. Len(conformation) :
        i # j => Cell(conformation, i) # Cell(conformation, j)

\* The pairs of chain positions (i, j), j > i + 1, on cells at unit distance.
ContactPositions(sequence, conformation) ==
    {q \in (0 .. Len(sequence) - 1) \X (0 .. Len(sequence) - 1) :
        /\ q[2] > q[1] + 1
        /\ UnitDistance(Cell(conformation, q[1]), Cell(conformation, q[2]))}

Unordered(a, b) == {a, b}
UnorderedPairs == {Unordered(a, b) : a, b \in Alphabet}

\* The sum of f[x] over the x of the finite set S.
RECURSIVE SumOver(_, _)
SumOver(S, f) ==
    IF S = {} THEN 0
    ELSE LET e == CHOOSE x \in S : TRUE
         IN  f[e] + SumOver(S \ {e}, f)

OverAlphabet(sequence) ==
    \A k \in 1 .. Len(sequence) : sequence[k] \in Alphabet

\* A call of the scorer on a well-formed input: a sequence over the table's
\* alphabet and a conformation of exactly L - 1 moves that visits no cell twice.
WellFormedCall ==
    /\ OverAlphabet(call.sequence)
    /\ call.conformation # None
    /\ Len(call.conformation) = Len(call.sequence) - 1
    /\ SelfAvoiding(call.conformation)

\* C1: on a self-avoiding conformation of L-1 moves thermo.lattice_contacts
\* returns one symbol pair per pair of positions (i, j), j > i+1, at unit
\* distance and nothing else, and thermo.fold_energy is the sum of the table
\* energies of those pairs.
C1_ContactsAreTheNonCovalentNeighbours ==
    (pc = "done" /\ WellFormedCall) =>
      LET P == ContactPositions(call.sequence, call.conformation)
      IN  /\ call.fn = "thermo.lattice_contacts" =>
              /\ ret.err = "none"
              /\ Len(ret.val) = Cardinality(P)
              /\ \A u \in UnorderedPairs :
                    Cardinality({k \in 1 .. Len(ret.val) :
                                    Unordered(ret.val[k][1], ret.val[k][2]) = u})
                    = Cardinality({q \in P :
                                    Unordered(At(call.sequence, q[1]),
                                              At(call.sequence, q[2])) = u})
          /\ call.fn = "thermo.fold_energy" =>
              /\ ret.err = "none"
              /\ ret.val = SumOver(P, [q \in P |->
                              call.interactions[<<At(call.sequence, q[1]),
                                                  At(call.sequence, q[2])>>]])

C1_Witness ==
    /\ pc = "done"
    /\ WellFormedCall
    /\ call.fn = "thermo.fold_energy"
    /\ ContactPositions(call.sequence, call.conformation) # {}
    /\ ret.err = "none"
    /\ ret.val < 0

\* C2: a conformation of None makes lattice_contacts and fold_energy fail with
\* ConformationError, in thermo.py and in utils.py.
C2_NoneRaisesConformationError ==
    (pc = "done" /\ call.conformation = None) => ret.err = "ConformationError"

\* ---------------------------------------------------- Boltzmann weights
RECURSIVE GCD(_, _)
GCD(a, b) == IF b = 0 THEN a ELSE GCD(b, a % b)

Sign(n) == IF n < 0 THEN -1 ELSE IF n > 0 THEN 1 ELSE 0

\* Mutant of Exponent: the sign of the energy is lost (exp(E/T)).
Exponent_plus(E, T) ==
    IF T = 0 THEN <<Sign(E), 0>>
    ELSE LET g == GCD(Abs(E), Abs(T))
         IN  <<(E * Sign(T)) \div g, Abs(T) \div g>>

\* The exponent -E/T of a Boltzmann weight as a reduced fraction with a positive
\* denominator.  numpy divides by T = 0 without raising (a RuntimeWarning):
\* <<1, 0>> is +inf, <<-1, 0>> is -inf and <<0, 0>> is NaN.
Exponent(E, T) ==
    IF T = 0 THEN <<Sign(-E), 0>>
    ELSE LET g == GCD(Abs(E), Abs(T))
         IN  <<(-E * Sign(T)) \div g, Abs(T) \div g>>

\* np.exp(-energies / temperature): the array of the weights.
boltzmann(energies, temperature) ==
    [k \in 1 .. Len(energies) |-> Exponent(energies[k], temperature)]

\* Mutant of SumWeights: equal weights are added once.
SumWeights_distinct(ws) == SetToBag({ws[k] : k \in 1 .. Len(ws)})

\* sum(...) of an array of weights: the bag of its terms.
RECURSIVE SumWeights(_)
SumWeights(ws) ==
    IF ws = <<>> THEN EmptyBag
    ELSE SetToBag({ws[1]}) (+) SumWeights(Tail(ws))

\* The number 0 that stability_from_energies returns for a degenerate minimum.
Zero == [kind |-> "zero", E |-> 0, T |-> 0, arg |-> EmptyBag]
\* A float that is no finite number: "-inf", "+inf" or "nan".
NonFinite(kind) == [kind |-> kind, E |-> 0, T |-> 0, arg |-> EmptyBag]
\* E + T * np.log(arg) for arg the sum of the weights left of the partition sum.
\* np.log(0.0) is -inf (a RuntimeWarning, not an exception), so an empty arg
\* gives -inf for T > 0 and +inf for T < 0.  At T = 0 every weight is inf, 0 or
\* NaN; the difference is then NaN (inf - inf, or NaN) or 0 (log gives -inf),
\* and 0 * log(...) is NaN either way.
PlusTLog(E, T, arg) ==
    IF T = 0 THEN NonFinite("nan")
    ELSE IF arg = EmptyBag THEN NonFinite(IF T > 0 THEN "-inf" ELSE "+inf")
    ELSE [kind |-> "log", E |-> E, T |-> T, arg |-> arg]

\* energies.min() of a non-empty array.
ArrayMin(energies) ==
    CHOOSE m \in {energies[k] : k \in 1 .. Len(energies)} :
        \A k \in 1 .. Len(energies) : m <= energies[k]

\* ------------------------------------------------ ensemble functions
\* np.array([... for c in conf_list]) over the results rs of the calls made
\* for the members: the first call that raises ends the comprehension.
as_array(rs) ==
    IF \E k \in 1 .. Len(rs) : rs[k].err # "none"
    THEN Raise(rs[CHOOSE k \in 1 .. Len(rs) :
                     /\ rs[k].err # "none"
                     /\ \A h \in 1 .. k - 1 : rs[h].err = "none"].err)
    ELSE Ok([k \in 1 .. Len(rs) |-> rs[k].val])

\* thermo.energy_list: fold_energy is called without the table, so with its
\* default, and the first exception ends the list comprehension.
energy_list(sequence, conf_list, interaction_energies) ==
    as_array([k \in 1 .. Len(conf_list) |->
                 fold_energy(sequence, conf_list[k], miyazawa_jernigan)])

\* thermo.partition_function_from_energies
partition_function_from_energies(energies, temperature) ==
    SumWeights(boltzmann(energies, temperature))

\* thermo.partition_function
partition_function_of(energies, temperature) ==
    IF energies.err # "none" THEN energies
    ELSE Ok(partition_function_from_energies(energies.val, temperature))
partition_function(sequence, conf_list, temperature, interaction_energies) ==
    partition_function_of(energy_list(sequence, conf_list, interaction_energies),
                          temperature)

\* Mutant of stability_from_energies: the degenerate-minimum test is off by
\* one (len(minE) > 2).
stability_from_energies_gt2(energies, temperature) ==
    LET partition == partition_function_from_energies(energies, temperature)
    IN  IF energies = <<>> THEN Raise("ValueError")
        ELSE
          LET minE == SelectSeq(energies, LAMBDA e : e = ArrayMin(energies))
          IN  IF Len(minE) > 2 THEN Ok(<<Zero, FALSE>>)
              ELSE Ok(<<PlusTLog(minE[1], temperature,
                          partition (-) SetToBag({Exponent(minE[1], temperature)})),
                        TRUE>>)

\* Mutant of stability_from_energies: the native weight is not subtracted from
\* the partition sum.
stability_from_energies_whole(energies, temperature) ==
    LET partition == partition_function_from_energies(energies, temperature)
    IN  IF energies = <<>> THEN Raise("ValueError")
        ELSE
          LET minE == SelectSeq(energies, LAMBDA e : e = ArrayMin(energies))
          IN  IF Len(minE) > 1 THEN Ok(<<Zero, FALSE>>)
              ELSE Ok(<<PlusTLog(minE[1], temperature, partition), TRUE>>)

\* thermo.stability_from_energies: the pair (stability, folded); the min() of
\* an empty array raises ValueError.
stability_from_energies(energies, temperature) ==
    LET partition == partition_function_from_energies(energies, temperature)
    IN  IF energies = <<>> THEN Raise("ValueError")
        ELSE
          LET minE == SelectSeq(energies, LAMBDA e : e = ArrayMin(energies))
          IN  IF Len(minE) > 1 THEN Ok(<<Zero, FALSE>>)
              ELSE Ok(<<PlusTLog(minE[1], temperature,
                          partition (-) SetToBag({Exponent(minE[1], temperature)})),
                        TRUE>>)

\* thermo.stability_from_conf_list: lines 114-121, on the result of line 113.
stability_of(energies, temperature) ==
    IF energies.err # "none" THEN energies
    ELSE IF energies.val = <<>> THEN Raise("ValueError")
    ELSE
      LET minE == SelectSeq(energies.val, LAMBDA e : e = ArrayMin(energies.val))
      IN  IF Len(minE) > 1 THEN Ok(<<Zero, FALSE>>)
          ELSE Ok(<<PlusTLog(minE[1], temperature,
                      partition_function_from_energies(energies.val, temperature)
                        (-) SetToBag({Exponent(minE[1], temperature)})),
                    TRUE>>)
stability_from_conf_list(sequence, conf_list, temperature, interaction_energies) ==
    stability_of(energy_list(sequence, conf_list, interaction_energies), temperature)

\* 1.0 / (1 + np.exp(stability/temperature)), kept as the exponent's two parts.
\* The fallback stability 0 is a Python int: dividing it by a temperature of 0
\* raises ZeroDivisionError, where a numpy float divides to NaN or inf.
one_over_one_plus_exp(stability, temperature) ==
    IF temperature = 0 /\ stability = Zero THEN Raise("ZeroDivisionError")
    ELSE Ok([kind |-> "1/(1+exp(s/T))", s |-> stability, T |-> temperature])

\* thermo.fracfolded_from_stability
fracfolded_from_stability(stability, temperature) ==
    one_over_one_plus_exp(stability, temperature)

\* 1.0 / (1 + np.exp(stability/temperature)) of a (stability, folded) pair.
fracfolded_of(r, temperature) ==
    IF r.err # "none" THEN r
    ELSE one_over_one_plus_exp(r.val[1], temperature)

\* thermo.fracfolded_from_energies
fracfolded_from_energies(energies, temperature) ==
    fracfolded_of(stability_from_energies(energies, temperature), temperature)

\* thermo.fracfolded_from_conf_list
fracfolded_from_conf_list(sequence, conf_list, temperature, interaction_energies) ==
    fracfolded_of(stability_from_conf_list(sequence, conf_list, temperature,
                                           interaction_energies), temperature)

\* ------------------------------------------ calls of the ensemble functions
EnergyLevels == {-200, -100, 0, 100}
EnergyArrays == SeqsOf(EnergyLevels, 0, MaxConfs)
\* Temperatures, in hundredths: one negative, zero, and the positive ones.
Temperatures == {100 * t : t \in -1 .. MaxTemp}
PositiveTemperatures == {t \in Temperatures : t > 0}
\* Sequences of four residues and conformations of three moves for them: two
\* that fold residue 0 onto residue 3, a straight one, and None.
EnsembleSequences ==
    {<<"H", "P", "P", "H">>, <<"P", "H", "H", "P">>, <<"H", "P", "P", "P">>}
ConfPool == {<<"R", "D", "L">>, <<"L", "D", "R">>, <<"R", "R", "R">>, None}
ConfLists == SeqsOf(ConfPool, 0, MaxConfs)
ShortConfLists == SeqsOf(ConfPool, 0, MaxConfs - 1)

InitEnsemble ==
    /\ \/ \E energies \in EnergyArrays, temperature \in Temperatures :
            call = [fn |-> "none", energies |-> energies,
                    temperature |-> temperature]
       \/ \E sequence \in EnsembleSequences, conf_list \in ConfLists,
             temperature \in Temperatures, interaction_energies \in Tables :
            call = [fn |-> "none", sequence |-> sequence, conf_list |-> conf_list,
                    temperature |-> temperature,
                    interaction_energies |-> interaction_energies]
    /\ self = NoObject
    /\ nsets = 0
    /\ ret = NoRet
    /\ pc = "ready"

\* A finished call: the function's name and what it returned or raised.
Return(fn, r) ==
    /\ call' = [call EXCEPT !.fn = fn]
    /\ ret' = r
    /\ pc' = "done"
    /\ UNCHANGED <<self, nsets>>

CallPartitionFunctionFromEnergies ==
    /\ pc = "ready" /\ "energies" \in DOMAIN call
    /\ Return("partition_function_from_energies",
              Ok(partition_function_from_energies(call.energies, call.temperature)))

CallStabilityFromEnergies ==
    /\ pc = "ready" /\ "energies" \in DOMAIN call
    /\ Return("stability_from_energies",
              stability_from_energies(call.energies, call.temperature))

CallFracfoldedFromEnergies ==
    /\ pc = "ready" /\ "energies" \in DOMAIN call
    /\ Return("fracfolded_from_energies",
              fracfolded_from_energies(call.energies, call.temperature))

CallEnergyList ==
    /\ pc = "ready" /\ "conf_list" \in DOMAIN call
    /\ Return("energy_list",
              energy_list(call.sequence, call.conf_list, call.interaction_energies))

CallPartitionFunction ==
    /\ pc = "ready" /\ "conf_list" \in DOMAIN call
    /\ Return("partition_function",
              partition_function(call.sequence, call.conf_list, call.temperature,
                                 call.interaction_energies))

CallStabilityFromConfList ==
    /\ pc = "ready" /\ "conf_list" \in DOMAIN call
    /\ Return("stability_from_conf_list",
              stability_from_conf_list(call.sequence, call.conf_list,
                                       call.temperature, call.interaction_energies))

CallFracfoldedFromConfList ==
    /\ pc = "ready" /\ "conf_list" \in DOMAIN call
    /\ Return("fracfolded_from_conf_list",
              fracfolded_from_conf_list(call.sequence, call.conf_list,
                                        call.temperature, call.interaction_energies))

NextEnsemble ==
    \/ CallPartitionFunctionFromEnergies
    \/ CallStabilityFromEnergies
    \/ CallFracfoldedFromEnergies
    \/ CallEnergyList
    \/ CallPartitionFunction
    \/ CallStabilityFromConfList
    \/ CallFracfoldedFromConfList

SpecEnsemble == InitEnsemble /\ [][NextEnsemble]_vars

\* ------------------------------------------- claims on the ensemble calls
StabilityCall ==
    /\ pc = "done"
    /\ call.fn \in {"stability_from_energies", "stability_from_conf_list"}
    /\ ret.err = "none"

\* The array of energies a finished stability call worked on.
CallEnergies ==
    IF "energies" \in DOMAIN call THEN call.energies
    ELSE energy_list(call.sequence, call.conf_list, call.interaction_energies).val

\* The ensemble members whose energy is the minimum.
MinMembers(E) == {k \in 1 .. Len(E) : \A h \in 1 .. Len(E) : E[k] <= E[h]}
RemoveAt(E, n) == SubSeq(E, 1, n - 1) \o SubSeq(E, n + 1, Len(E))

\* C3: a member whose fold_energy raises ConformationError is left out of the
\* scoring; the others are scored and the ensemble call does not fail.
C3_BadMemberIsExcluded ==
    (pc = "done" /\ call.fn = "energy_list" /\ call.temperature > 0) =>
      LET good == SelectSeq(call.conf_list, LAMBDA c : c # None)
      IN  /\ ret.err = "none"
          /\ ret.val = [k \in 1 .. Len(good) |->
                          fold_energy(call.sequence, good[k], miyazawa_jernigan).val]

\* C4: folded is False exactly when more than one member attains the minimum
\* energy, and then the stability is exactly 0.
C4_FoldedIffUniqueMinimum ==
    StabilityCall =>
      /\ ret.val[2] = FALSE <=> Cardinality(MinMembers(CallEnergies)) > 1
      /\ ret.val[2] = FALSE => ret.val[1] = Zero

C4_Witness ==
    /\ StabilityCall
    /\ call.temperature > 0
    /\ Len(CallEnergies) = 3
    /\ Cardinality(MinMembers(CallEnergies)) = 2
    /\ ret.val = <<Zero, FALSE>>

\* C8: with an alternate interaction table every contact is scored with that
\* table, not with miyazawa_jernigan.
C8_AlternateTableIsUsed ==
    (/\ pc = "done" /\ call.fn = "energy_list" /\ ret.err = "none"
     /\ call.temperature > 0) =>
      \A k \in 1 .. Len(call.conf_list) :
        LET P == ContactPositions(call.sequence, call.conf_list[k])
        IN  ret.val[k] = SumOver(P, [q \in P |->
                call.interaction_energies[<<At(call.sequence, q[1]),
                                            At(call.sequence, q[2])>>]])

\* C9: with a unique minimum the stability is min_energy + T * ln(A), A being
\* partition_sum - exp(-min_energy/T): the sum of the Boltzmann weights of all
\* members but the native one.  (With no other member A is 0 and the value
\* is -inf, +inf for a negative T; at T = 0 both sides are NaN.)
C9_StabilityExcludesNativeWeight ==
    (StabilityCall /\ Cardinality(MinMembers(CallEnergies)) = 1) =>
      LET E == CallEnergies
          n == CHOOSE k \in MinMembers(E) : TRUE
          others == SumWeights(boltzmann(RemoveAt(E, n), call.temperature))
      IN  /\ ret.val[2] = TRUE
          /\ IF call.temperature = 0 THEN ret.val[1].kind = "nan"
             ELSE IF others = EmptyBag
             THEN ret.val[1].kind = (IF call.temperature > 0 THEN "-inf" ELSE "+inf")
             ELSE ret.val[1] = [kind |-> "log", E |-> E[n],
                                T |-> call.temperature, arg |-> others]

C9_Witness ==
    /\ StabilityCall
    /\ call.temperature > 0
    /\ Len(CallEnergies) = 3
    /\ Cardinality(MinMembers(CallEnergies)) = 1
    /\ ret.val[1].kind = "log"
    /\ BagCardinality(ret.val[1].arg) = 2

\* C10: when partition_sum - exp(-min_energy/T) is not positive, as for an
\* ensemble of the native state alone, the stability returned is zero and never
\* infinite or NaN (stated for the positive temperatures).
C10_NonPositiveLogArgumentGivesZero ==
    (StabilityCall /\ call.temperature > 0) =>
      /\ ret.val[1].kind \in {"zero", "log"}
      /\ Len(CallEnergies) = 1 => ret.val[1] = Zero

\* --------------------------------------------- LatticeThermodynamics
\* An object is the function from the names of its attributes to their
\* values; conf_list is a numpy array of conformations (as built by
\* search.get_lowest_confs), indexable by an array of indexes.
HasAttr(obj, name) == name \in DOMAIN obj
SetAttr(obj, name, v) ==
    [a \in DOMAIN obj \cup {name} |-> IF a = name THEN v ELSE obj[a]]
\* What a property getter leaves behind: the object and the value or exception.
Got(obj, r) == [self |-> obj, ret |-> r]

\* LatticeThermodynamics.__init__
new_LatticeThermodynamics(sequence, conf_list, temperature, interaction_energies) ==
    [sequence |-> sequence, conf_list |-> conf_list, temperature |-> temperature,
     interaction_energies |-> interaction_energies]

\* LatticeThermodynamics.energies, lines 33-38 on the result r of energy_list:
\* _energies is stored before the minimum is looked up, and min() of an empty
\* array raises ValueError.
store_energies(obj, r) ==
    IF r.err # "none" THEN Got(obj, r)
    ELSE IF r.val = <<>>
    THEN Got(SetAttr(obj, "_energies", r.val), Raise("ValueError"))
    ELSE Got(SetAttr(SetAttr(obj, "_energies", r.val), "native_conf",
                     obj.conf_list[CHOOSE k \in MinMembers(r.val) :
                                      \A h \in MinMembers(r.val) : k <= h]),
             Ok(r.val))

\* LatticeThermodynamics.energies
get_energies(obj) ==
    IF HasAttr(obj, "_energies") THEN Got(obj, Ok(obj["_energies"]))
    ELSE store_energies(obj, energy_list(obj.sequence, obj.conf_list,
                                         obj.interaction_energies))

\* LatticeThermodynamics.partition_function, lines 46-49 after self.energies.
store_partition_sum(e, temperature) ==
    IF e.ret.err # "none" THEN e
    ELSE Got(SetAttr(e.self, "_partition_sum",
                     partition_function_from_energies(e.ret.val, temperature)),
             Ok(partition_function_from_energies(e.ret.val, temperature)))

\* LatticeThermodynamics.partition_function
get_partition_function(obj) ==
    IF HasAttr(obj, "_partition_sum") THEN Got(obj, Ok(obj["_partition_sum"]))
    ELSE store_partition_sum(get_energies(obj), obj.temperature)

\* self._stability, self._folded = stability_from_energies(...); `which` is the
\* member of the pair the getter returns.
store_stability(obj, r, which) ==
    IF r.err # "none" THEN Got(obj, r)
    ELSE Got(SetAttr(SetAttr(obj, "_stability", r.val[1]), "_folded", r.val[2]),
             Ok(r.val[which]))

\* Lines 58-61 and 69-72 after self.energies.
compute_stability(e, temperature, which) ==
    IF e.ret.err # "none" THEN e
    ELSE store_stability(e.self, stability_from_energies(e.ret.val, temperature),
                         which)

\* LatticeThermodynamics.stability
get_stability(obj) ==
    IF HasAttr(obj, "_stability") THEN Got(obj, Ok(obj["_stability"]))
    ELSE compute_stability(get_energies(obj), obj.temperature, 1)

\* LatticeThermodynamics.folded
get_folded(obj) ==
    IF HasAttr(obj, "_folded") THEN Got(obj, Ok(obj["_folded"]))
    ELSE compute_stability(get_energies(obj), obj.temperature, 2)

\* Lines 80-82 after self.stability.
cache_fracfolded(obj, f) ==
    IF f.err # "none" THEN Got(obj, f)
    ELSE Got(SetAttr(obj, "_fracfolded", f.val), f)
store_fracfolded(s, temperature) ==
    IF s.ret.err # "none" THEN s
    ELSE cache_fracfolded(s.self, fracfolded_from_stability(s.ret.val, temperature))

\* LatticeThermodynamics.fracfolded
get_fracfolded(obj) ==
    IF HasAttr(obj, "_fracfolded") THEN Got(obj, Ok(obj["_fracfolded"]))
    ELSE store_fracfolded(get_stability(obj), obj.temperature)

\* native_conf is a plain attribute, set by the energies getter alone.
get_native_conf(obj) ==
    IF HasAttr(obj, "native_conf") THEN Got(obj, Ok(obj["native_conf"]))
    ELSE Got(obj, Raise("AttributeError"))

Init ==
    /\ \E sequence \in EnsembleSequences, conf_list \in ConfLists,
          temperature \in Temperatures, interaction_energies \in Tables :
         self = new_LatticeThermodynamics(sequence, conf_list, temperature,
                                          interaction_energies)
    /\ call = NoCall
    /\ ret = NoRet
    /\ pc = "ready"
    /\ nsets = 0

\* Whether reading the attribute `name` of obj calls energy_list: each getter
\* reaches the energies getter unless a cache of its own answers, and the
\* energies getter calls energy_list when _energies is not set.
runs_energy_list(obj, name) ==
    /\ ~HasAttr(obj, "_energies")
    /\ CASE name = "energies" -> TRUE
         [] name = "partition_function" -> ~HasAttr(obj, "_partition_sum")
         [] name = "stability" -> ~HasAttr(obj, "_stability")
         [] name = "folded" -> ~HasAttr(obj, "_folded")
         [] name = "fracfolded" ->
               ~HasAttr(obj, "_fracfolded") /\ ~HasAttr(obj, "_stability")
         [] OTHER -> FALSE

\* Whether reading the attribute `name` of obj calls stability_from_energies:
\* the stability and folded getters do when their cache is not set and
\* self.energies returned.
runs_stability_from_energies(obj, name) ==
    /\ CASE name = "stability" -> ~HasAttr(obj, "_stability")
         [] name = "folded" -> ~HasAttr(obj, "_folded")
         [] name = "fracfolded" ->
               ~HasAttr(obj, "_fracfolded") /\ ~HasAttr(obj, "_stability")
         [] OTHER -> FALSE
    /\ get_energies(obj).ret.err = "none"

\* The number of calls counted so far in the field `runs` of the last read,
\* and that number after one more read; counting stops at two.
RunsSoFar(runs) == IF runs \in DOMAIN call THEN call[runs] ELSE 0
Counted(n, ran) == IF ran /\ n < 2 THEN n + 1 ELSE n

\* A read of one attribute: `first` tells whether anything was read before.
Read(name, got) ==
    /\ call' = [fn |-> name, first |-> (pc = "ready"),
                energy_list_runs |->
                    Counted(RunsSoFar("energy_list_runs"),
                            runs_energy_list(self, name)),
                stability_runs |->
                    Counted(RunsSoFar("stability_runs"),
                            runs_stability_from_energies(self, name))]
    /\ self' = got.self
    /\ ret' = got.ret
    /\ pc' = "done"
    /\ UNCHANGED nsets

ReadEnergies == Read("energies", get_energies(self))
ReadPartitionFunction == Read("partition_function", get_partition_function(self))
ReadStability == Read("stability", get_stability(self))
ReadFolded == Read("folded", get_folded(self))
ReadFracfolded == Read("fracfolded", get_fracfolded(self))
ReadNativeConf == Read("native_conf", get_native_conf(self))

Next ==
    \/ ReadEnergies
    \/ ReadPartitionFunction
    \/ ReadStability
    \/ ReadFolded
    \/ ReadFracfolded
    \/ ReadNativeConf

Spec == Init /\ [][Next]_vars

\* An assignment to one of the constructor's attributes by the object's user;
\* nothing in the class intercepts it.
SetAttribute ==
    /\ nsets < MaxSets
    /\ \/ \E sequence \in EnsembleSequences :
            self' = SetAttr(self, "sequence", sequence)
       \/ \E conf_list \in ShortConfLists :
            self' = SetAttr(self, "conf_list", conf_list)
       \/ \E temperature \in PositiveTemperatures :
            self' = SetAttr(self, "temperature", temperature)
    /\ nsets' = nsets + 1
    /\ UNCHANGED <<call, ret, pc>>

NextMutate == Next \/ SetAttribute

\* Objects whose attributes get assigned are drawn with positive temperatures
\* and with lists one member shorter, which keeps the product of objects and
\* assignments small.
InitMutate ==
    /\ \E sequence \in EnsembleSequences, conf_list \in ShortConfLists,
          temperature \in PositiveTemperatures, interaction_energies \in Tables :
         self = new_LatticeThermodynamics(sequence, conf_list, temperature,
                                          interaction_energies)
    /\ call = NoCall
    /\ ret = NoRet
    /\ pc = "ready"
    /\ nsets = 0

SpecMutate == InitMutate /\ [][NextMutate]_vars

\* ------------------------------------------------ claims on the object
\* A non-empty ensemble every member of which is a conformation.
Scoreable(conf_list) ==
    /\ conf_list # <<>>
    /\ \A k \in 1 .. Len(conf_list) : conf_list[k] # None

Distinct(conf_list) ==
    \A j, k \in 1 .. Len(conf_list) : j # k => conf_list[j] # conf_list[k]

\* C5: a native conformation is reported only when exactly one member attains
\* the minimum energy (and is that member); with a shared minimum none is
\* (stated for a positive temperature and pairwise different members).
C5_NativeOnlyWhenMinimumUnique ==
    (/\ HasAttr(self, "native_conf")
     /\ self.temperature > 0
     /\ Distinct(self.conf_list)) =>
      /\ Cardinality(MinMembers(self["_energies"])) = 1
      /\ \E k \in MinMembers(self["_energies"]) :
            self["native_conf"] = self.conf_list[k]

\* C6: on a new object whichever field is read first - energies, partition
\* function, native conformation, stability, folded, fracfolded - the read
\* computes and returns the field (stated for a positive temperature and an
\* ensemble every member of which can be scored).
C6_AnyFirstReadSucceeds ==
    (/\ pc = "done"
     /\ call.first
     /\ self.temperature > 0
     /\ Scoreable(self.conf_list))
    => ret.err = "none"

\* C7: the constructor's attributes never change, so every cached field is the
\* value derived from the object's current sequence, conformation list and
\* temperature (stated for a positive temperature, a scoreable ensemble and
\* caches that were filled by reads that did not fail).
C7_CachedFieldsAreCurrent ==
    LET e == energy_list(self.sequence, self.conf_list, self.interaction_energies)
    IN  (/\ self.temperature > 0
         /\ Scoreable(self.conf_list)
         /\ HasAttr(self, "_energies") => self["_energies"] # <<>>) =>
        /\ HasAttr(self, "_energies") => e = Ok(self["_energies"])
        /\ HasAttr(self, "_partition_sum") =>
              /\ e.err = "none"
              /\ self["_partition_sum"] =
                    partition_function_from_energies(e.val, self.temperature)
        /\ HasAttr(self, "_stability") =>
              /\ e.err = "none"
              /\ Ok(<<self["_stability"], self["_folded"]>>) =
                    stability_from_energies(e.val, self.temperature)
        /\ HasAttr(self, "_fracfolded") =>
              /\ HasAttr(self, "_stability")
              /\ Ok(self["_fracfolded"]) =
                    fracfolded_from_stability(self["_stability"], self.temperature)

\* ------------------------------------- claims on the partition sum
PartitionCall ==
    /\ pc = "done"
    /\ call.fn = "partition_function_from_energies"

\* C11: the partition sum is the sum over every member, equal energies counted
\* once per member, of exp(-E_k/T) and nothing else (stated for the positive
\* temperatures); for energies [-2, -1, -1] at T = 1 it is
\* exp(2) + exp(1) + exp(1), folded is True and the native energy is -2.
C11_PartitionSumHasOneTermPerMember ==
    /\ (PartitionCall /\ call.temperature > 0) =>
         /\ ret.err = "none"
         /\ BagCardinality(ret.val) = Len(call.energies)
         /\ \A k \in 1 .. Len(call.energies) :
              CopiesIn(Exponent(call.energies[k], call.temperature), ret.val) =
                Cardinality({h \in 1 .. Len(call.energies) :
                               call.energies[h] = call.energies[k]})
         /\ (call.energies = <<-200, -100, -100>> /\ call.temperature = 100) =>
              ret.val = (<<2, 1>> :> 1) @@ (<<1, 1>> :> 2)
    /\ (/\ pc = "done" /\ call.fn = "stability_from_energies"
        /\ call.energies = <<-200, -100, -100>> /\ call.temperature = 100) =>
         ret = Ok(<<[kind |-> "log", E |-> -200, T |-> 100,
                     arg |-> (<<1, 1>> :> 2)], TRUE>>)

C11_Witness ==
    /\ PartitionCall
    /\ call.energies = <<-200, -100, -100>>
    /\ call.temperature = 100
    /\ CopiesIn(<<1, 1>>, ret.val) = 2
    /\ CopiesIn(<<2, 1>>, ret.val) = 1

\* C12: the partition sum over a list of conformations always includes the
\* fully unfolded state of energy 0: exp(0) = 1 is one of the terms of the sum
\* (stated for the positive temperatures, where exp(-E/T) = 1 only for E = 0,
\* and for the ensembles of at least one member).
C12_UnfoldedStateIsATerm ==
    (/\ pc = "done"
     /\ call.fn \in {"partition_function_from_energies", "partition_function"}
     /\ call.temperature > 0
     /\ ret.err = "none"
     /\ ret.val # EmptyBag) =>
      CopiesIn(<<0, 1>>, ret.val) >= 1

\* The number of members of the ensemble a call was made on.
EnsembleSize ==
    IF "energies" \in DOMAIN call THEN Len(call.energies) ELSE Len(call.conf_list)

\* C13: a temperature that is zero or negative is rejected with an error; no
\* partition sum, stability or fraction folded is returned for it (stated for
\* the ensembles of at least one member).
C13_NonPositiveTemperatureIsRejected ==
    (/\ pc = "done"
     /\ call.fn \in {"partition_function_from_energies", "stability_from_energies",
                     "fracfolded_from_energies", "partition_function",
                     "stability_from_conf_list", "fracfolded_from_conf_list"}
     /\ call.temperature <= 0
     /\ EnsembleSize >= 1) =>
      ret.err # "none"

\* ------------------------------------ claims on the scorer's inputs
ThermoScorerCall ==
    /\ pc = "done"
    /\ call.fn \in {"thermo.lattice_contacts", "thermo.fold_energy"}

\* C14: a conformation whose number of moves is not len(sequence) - 1, too few
\* or too many, is rejected with an error: nothing is returned for it.
C14_WrongNumberOfMovesIsRejected ==
    (/\ ThermoScorerCall
     /\ call.conformation # None
     /\ Len(call.conformation) # Len(call.sequence) - 1) =>
      ret.err # "none"

\* C15 as stated: a 2-residue sequence scored with a conformation of zero
\* moves gives an empty contact list and the energy 0, and does not raise.
C15_TwoResiduesNoMoves ==
    (/\ ThermoScorerCall
     /\ Len(call.sequence) = 2
     /\ call.conformation = <<>>) =>
      /\ call.fn = "thermo.lattice_contacts" => ret = Ok(<<>>)
      /\ call.fn = "thermo.fold_energy" => ret = Ok(0)

\* C15 as amended: a 2-residue sequence over the table's alphabet scored with
\* its conformation of one move gives an empty contact list and the energy 0;
\* with a conformation of zero moves the walk raises IndexError.
C15_TwoResiduesOneMove ==
    (/\ ThermoScorerCall
     /\ Len(call.sequence) = 2
     /\ OverAlphabet(call.sequence)
     /\ call.conformation # None) =>
      /\ Len(call.conformation) = 1 =>
           /\ call.fn = "thermo.lattice_contacts" => ret = Ok(<<>>)
           /\ call.fn = "thermo.fold_energy" => ret = Ok(0)
      /\ Len(call.conformation) = 0 => ret = Raise("IndexError")

C15_Witness ==
    /\ ThermoScorerCall
    /\ call.fn = "thermo.fold_energy"
    /\ Len(call.sequence) = 2
    /\ call.conformation # None
    /\ Len(call.conformation) = 1
    /\ ret = Ok(0)

\* The worked example: HPHP and HPPH folded by R, D, L, which brings the
\* fourth residue to the cell below the first.
HPHP == <<"H", "P", "H", "P">>
HPPH == <<"H", "P", "P", "H">>
RDL == <<"R", "D", "L">>

\* C16 as stated: for HPHP with RDL and the table {HH: -1, others: 0} the
\* first and fourth residues are lattice-adjacent, exactly one non-covalent
\* contact is reported, and fold_energy returns -1.
C16_ExampleScoresMinusOne ==
    (ThermoScorerCall /\ call.sequence = HPHP /\ call.conformation = RDL) =>
      /\ call.fn = "thermo.lattice_contacts" =>
           ret.err = "none" /\ Len(ret.val) = 1
      /\ (call.fn = "thermo.fold_energy" /\ call.interactions = hp_table) =>
           ret = Ok(-100)

\* C16 as amended: for HPHP with RDL the first and fourth residues are the one
\* pair of lattice-adjacent non-bonded residues, the one contact reported is
\* their pair P, H, and with the table {HH: -1, others: 0} fold_energy returns
\* 0; it is for HPPH, whose ends are both H, that fold_energy returns -1.
C16_ExampleScoresItsContact ==
    (ThermoScorerCall /\ call.conformation = RDL) =>
      /\ call.sequence = HPHP =>
           /\ ContactPositions(call.sequence, call.conformation) = {<<0, 3>>}
           /\ call.fn = "thermo.lattice_contacts" => ret = Ok(<< <<"P", "H">> >>)
           /\ (call.fn = "thermo.fold_energy" /\ call.interactions = hp_table) =>
                ret = Ok(0)
      /\ call.sequence = HPPH =>
           /\ call.fn = "thermo.lattice_contacts" => ret = Ok(<< <<"H", "H">> >>)
           /\ (call.fn = "thermo.fold_energy" /\ call.interactions = hp_table) =>
                ret = Ok(-100)

C16_Witness ==
    /\ ThermoScorerCall
    /\ call.fn = "thermo.fold_energy"
    /\ call.sequence = HPHP
    /\ call.conformation = RDL
    /\ call.interactions = hp_table
    /\ ret = Ok(0)

\* ------------------------------------- claims on the bond filtering
\* How many entries of the contact list are the unordered symbol pair u.
CountOf(contacts, u) ==
    Cardinality({k \in 1 .. Len(contacts) :
                    Unordered(contacts[k][1], contacts[k][2]) = u})
\* The chain bonds (i, i+1), by the 1-based position of their first residue.
Bonds(sequence) == 1 .. Len(sequence) - 1

\* A call of thermo.lattice_contacts whose walk has the moves it needs, so
\* that the bond filtering is reached.
FilteringCall ==
    /\ pc = "done"
    /\ call.fn = "thermo.lattice_contacts"
    /\ call.conformation # None
    /\ Len(call.conformation) >= Len(call.sequence) - 1

\* C17: the bond filtering removes exactly one candidate entry per bond
\* (i, i+1) whose symbol pair is in the interaction table - candidates minus
\* contacts is the number of such bonds - and a non-covalent contact with the
\* symbol pair of a bond is kept.
C17_OneEntryRemovedPerBond ==
    FilteringCall =>
      LET before == candidates(call.sequence, call.conformation,
                               2 * Len(call.sequence) + 1)
      IN  /\ before.err = "none"
          /\ ret.err = "none"
          /\ Len(before.val) - Len(ret.val) =
               Cardinality({i \in Bonds(call.sequence) :
                  <<call.sequence[i], call.sequence[i + 1]>>
                      \in DOMAIN miyazawa_jernigan})
          /\ \A u \in UnorderedPairs :
               CountOf(before.val, u) - CountOf(ret.val, u) =
                 Cardinality({i \in Bonds(call.sequence) :
                    Unordered(call.sequence[i], call.sequence[i + 1]) = u})

\* ----------------------- the partition sum at two temperatures
\* One ensemble scored at a temperature and then at a higher one: `first`
\* keeps what the call at the lower temperature returned.
InitScan ==
    /\ \E temperature \in PositiveTemperatures, hotter \in PositiveTemperatures :
         /\ temperature < hotter
         /\ \/ \E energies \in EnergyArrays :
                 call = [fn |-> "none", energies |-> energies,
                         temperature |-> temperature, hotter |-> hotter,
                         first |-> NoRet]
            \/ \E sequence \in EnsembleSequences, conf_list \in ConfLists,
                  interaction_energies \in Tables :
                 call = [fn |-> "none", sequence |-> sequence,
                         conf_list |-> conf_list, temperature |-> temperature,
                         hotter |-> hotter,
                         interaction_energies |-> interaction_energies,
                         first |-> NoRet]
    /\ self = NoObject
    /\ nsets = 0
    /\ ret = NoRet
    /\ pc = "ready"

\* The call at the lower temperature.
ScanFirst(fn, r) ==
    /\ pc = "ready"
    /\ call' = [call EXCEPT !.fn = fn]
    /\ ret' = r
    /\ pc' = "first"
    /\ UNCHANGED <<self, nsets>>

\* The call at the higher temperature, on the same ensemble.
ScanSecond(fn, r) ==
    /\ pc = "first"
    /\ call.fn = fn
    /\ call' = [call EXCEPT !.first = ret]
    /\ ret' = r
    /\ pc' = "done"
    /\ UNCHANGED <<self, nsets>>

FirstPartitionFunctionFromEnergies ==
    /\ "energies" \in DOMAIN call
    /\ ScanFirst("partition_function_from_energies",
                 Ok(partition_function_from_energies(call.energies,
                                                     call.temperature)))

SecondPartitionFunctionFromEnergies ==
    /\ "energies" \in DOMAIN call
    /\ ScanSecond("partition_function_from_energies",
                  Ok(partition_function_from_energies(call.energies, call.hotter)))

FirstPartitionFunction ==
    /\ "conf_list" \in DOMAIN call
    /\ ScanFirst("partition_function",
                 partition_function(call.sequence, call.conf_list,
                                    call.temperature, call.interaction_energies))

SecondPartitionFunction ==
    /\ "conf_list" \in DOMAIN call
    /\ ScanSecond("partition_function",
                  partition_function(call.sequence, call.conf_list, call.hotter,
                                     call.interaction_energies))

NextScan ==
    \/ FirstPartitionFunctionFromEnergies
    \/ SecondPartitionFunctionFromEnergies
    \/ FirstPartitionFunction
    \/ SecondPartitionFunction

SpecScan == InitScan /\ [][NextScan]_vars

\* ---------------------- claims on the partition sum and temperature
\* Exponents as rationals with positive denominators: a >= b.
AtLeast(a, b) == a[1] * b[2] >= b[1] * a[2]

\* The terms of a sum of weights, largest exponent first.
RECURSIVE Descending(_)
Descending(B) ==
    IF B = EmptyBag THEN <<>>
    ELSE LET m == CHOOSE x \in BagToSet(B) : \A y \in BagToSet(B) : AtLeast(x, y)
         IN  <<m>> \o Descending(B (-) SetToBag({m}))

\* A sufficient test for sum A >= sum B: the sums have as many terms, and
\* taken largest first, each term of A is at least the matching term of B.
Dominates(A, B) ==
    /\ BagCardinality(A) = BagCardinality(B)
    /\ \A k \in 1 .. BagCardinality(A) :
          AtLeast(Descending(A)[k], Descending(B)[k])
\* A sufficient test for sum A > sum B: moreover one term is strictly larger.
StrictlyDominates(A, B) ==
    /\ Dominates(A, B)
    /\ \E k \in 1 .. BagCardinality(A) :
          ~AtLeast(Descending(B)[k], Descending(A)[k])

\* Both calls of a scan have returned a sum.
ScanDone ==
    /\ pc = "done"
    /\ call.fn \in {"partition_function_from_energies", "partition_function"}
    /\ call.first.err = "none"
    /\ ret.err = "none"

\* C18 as stated: for 0 < T1 < T2 the partition sum at T1 is strictly greater
\* than the sum at T2, whatever the energies of the ensemble (stated for the
\* ensembles of at least one member; violated only where the sum at T2 is
\* certainly no smaller).
C18_PartitionSumStrictlyDecreases ==
    (ScanDone /\ EnsembleSize >= 1) => ~Dominates(ret.val, call.first.val)

\* C18 as amended: for 0 < T1 < T2 the sum at T1 is strictly greater when no
\* energy is positive and one is negative; it is the same at both when every
\* energy is zero, and strictly smaller when no energy is negative and one is
\* positive.
C18_PartitionSumFollowsTheSignOfTheEnergies ==
    (ScanDone /\ EnsembleSize >= 1) =>
      LET E == CallEnergies
          K == 1 .. Len(E)
      IN  /\ ((\A k \in K : E[k] <= 0) /\ (\E k \in K : E[k] < 0)) =>
                StrictlyDominates(call.first.val, ret.val)
          /\ (\A k \in K : E[k] = 0) => call.first.val = ret.val
          /\ ((\A k \in K : E[k] >= 0) /\ (\E k \in K : E[k] > 0)) =>
                StrictlyDominates(ret.val, call.first.val)

C18_Witness ==
    /\ ScanDone
    /\ Len(CallEnergies) = 3
    /\ \A k \in 1 .. 3 : CallEnergies[k] <= 0
    /\ \E k \in 1 .. 3 : CallEnergies[k] < 0
    /\ \E k \in 1 .. 3 : CallEnergies[k] = 0
    /\ StrictlyDominates(call.first.val, ret.val)

\* ------------------------------------ claims on the order of a pair
\* A table that gives the pair AB the energy of BA.
Symmetric(interactions) ==
    \A p \in DOMAIN interactions :
        /\ <<p[2], p[1]>> \in DOMAIN interactions
        /\ interactions[<<p[2], p[1]>>] = interactions[p]

\* The contact list with every pair recorded in the other order.
Flip(contacts) ==
    [k \in 1 .. Len(contacts) |-> <<contacts[k][2], contacts[k][1]>>]

\* The bond removal trying the two orders the other way round: the pair
\* sequence[i] + sequence[i-1] first, sequence[i-1:i+1] if it is not there.
RECURSIVE RemoveOtherOrder(_, _, _)
RemoveOtherOrder(contacts, sequence, i) ==
    IF i >= Len(sequence) THEN contacts
    ELSE LET fwd == <<At(sequence, i - 1), At(sequence, i)>>
             rev == <<At(sequence, i), At(sequence, i - 1)>>
         IN  RemoveOtherOrder(
                 IF Has(contacts, rev) THEN RemoveFirst(contacts, rev)
                 ELSE IF Has(contacts, fwd) THEN RemoveFirst(contacts, fwd)
                 ELSE contacts,
                 sequence, i + 1)

Energy(contacts, interactions) ==
    SumSeq([k \in 1 .. Len(contacts) |-> interactions[contacts[k]]])

\* A thermo.fold_energy call on a sequence over the table's alphabet whose
\* walk has the moves it needs.
EnergyCall ==
    /\ pc = "done"
    /\ call.fn = "thermo.fold_energy"
    /\ OverAlphabet(call.sequence)
    /\ call.conformation # None
    /\ Len(call.conformation) >= Len(call.sequence) - 1

\* C19: with a table that gives AB the energy of BA, fold_energy is the same
\* whichever order each contact is recorded and looked up in and whichever of
\* the two orders the bond removal deletes.
C19_EnergyIgnoresPairOrder ==
    (EnergyCall /\ Symmetric(call.interactions)) =>
      LET before == candidates(call.sequence, call.conformation,
                               2 * Len(call.sequence) + 1).val
          after == lattice_contacts(call.sequence, call.conformation).val
      IN  /\ ret.err = "none"
          /\ ret.val = Energy(Flip(after), call.interactions)
          /\ ret.val = Energy(RemoveOtherOrder(before, call.sequence, 1),
                              call.interactions)
          /\ ret.val = Energy(RemoveOtherOrder(Flip(before), call.sequence, 1),
                              call.interactions)

\* A contact of two different symbols is scored, and for one bond of the chain
\* the pair sequence[i-1:i+1] is no candidate, so that the removal deleted its
\* reverse.
C19_Witness ==
    /\ EnergyCall
    /\ Symmetric(call.interactions)
    /\ ret.err = "none"
    /\ ret.val < 0
    /\ \E k \in 1 .. Len(lattice_contacts(call.sequence, call.conformation).val) :
          lattice_contacts(call.sequence, call.conformation).val[k][1] #
            lattice_contacts(call.sequence, call.conformation).val[k][2]
    /\ \E i \in Bonds(call.sequence) :
          ~Has(candidates(call.sequence, call.conformation,
                          2 * Len(call.sequence) + 1).val,
               <<call.sequence[i], call.sequence[i + 1]>>)

\* ------------------------------------------ utils.enumerate_space
\* compare_sequences: the (0-based) indexes where two strings differ.
compare_sequences(s1, s2) ==
    SelectSeq([i \in 1 .. Len(s1) |-> i - 1], LAMBDA i : At(s1, i) # At(s2, i))

\* [mutations[i] for i in range(n_mut-1, -1, -1)]
reversed(mutations) ==
    [i \in 1 .. Len(mutations) |-> mutations[Len(mutations) + 1 - i]]

\* itertools.combinations(pool, r): the r-element subsequences of the pool, in
\* the lexicographic order of their positions.
RECURSIVE combinations(_, _)
combinations(pool, r) ==
    IF r = 0 THEN << <<>> >>
    ELSE IF Len(pool) < r THEN <<>>
    ELSE LET with == combinations(Tail(pool), r - 1)
         IN  [k \in 1 .. Len(with) |-> <<Head(pool)>> \o with[k]]
               \o combinations(Tail(pool), r)

\* Mutant of all_combinations: the sizes stop one short (range(1, n_mut)).
RECURSIVE all_combinations_short(_, _)
all_combinations_short(rev_mutations, i) ==
    IF i >= Len(rev_mutations) THEN <<>>
    ELSE combinations(rev_mutations, i) \o all_combinations_short(rev_mutations, i + 1)

\* [list(j) for i in range(1, n_mut+1) for j in it.combinations(rev_mutations, i)],
\* from the size i on.
RECURSIVE all_combinations(_, _)
all_combinations(rev_mutations, i) ==
    IF i > Len(rev_mutations) THEN <<>>
    ELSE combinations(rev_mutations, i) \o all_combinations(rev_mutations, i + 1)

\* The body of the loop over the combinations: the wildtype with the mutant's
\* symbol at every index of c.
mutate(wildtype, mutant, c) ==
    [p \in 1 .. Len(wildtype) |->
        IF \E k \in 1 .. Len(c) : c[k] = p - 1 THEN mutant[p] ELSE wildtype[p]]

\* sequence_space: the wildtype, then one sequence per combination.
sequence_space_of(wildtype, mutant, combs) ==
    <<wildtype>> \o [k \in 1 .. Len(combs) |-> mutate(wildtype, mutant, combs[k])]

\* utils.enumerate_space
enumerate_space(wildtype, mutant) ==
    IF Len(wildtype) # Len(mutant) THEN Raise("IndexError")
    ELSE Ok(sequence_space_of(wildtype, mutant,
              all_combinations(reversed(compare_sequences(wildtype, mutant)), 1)))

\* The strings enumerate_space is called on.
SpaceSequences == SeqsOf(Alphabet, 0, MaxLen)

InitSpace ==
    /\ \E wildtype \in SpaceSequences, mutant \in SpaceSequences :
         call = [fn |-> "none", wildtype |-> wildtype, mutant |-> mutant]
    /\ self = NoObject
    /\ nsets = 0
    /\ ret = NoRet
    /\ pc = "ready"

CallEnumerateSpace ==
    /\ pc = "ready"
    /\ call' = [call EXCEPT !.fn = "utils.enumerate_space"]
    /\ ret' = enumerate_space(call.wildtype, call.mutant)
    /\ pc' = "done"
    /\ UNCHANGED <<self, nsets>>

NextSpace == CallEnumerateSpace

SpecSpace == InitSpace /\ [][NextSpace]_vars

\* ------------------------------------- claims on enumerate_space
\* The sites at which the two strings of a call differ.
DifferingSites ==
    {p \in 1 .. Len(call.wildtype) : call.wildtype[p] # call.mutant[p]}

\* Every string that has at each position the wildtype's or the mutant's symbol.
BinarySpace ==
    {s \in [1 .. Len(call.wildtype) -> Alphabet] :
        \A p \in 1 .. Len(call.wildtype) :
            s[p] \in {call.wildtype[p], call.mutant[p]}}

EnumerateCall ==
    /\ pc = "done"
    /\ call.fn = "utils.enumerate_space"
    /\ Len(call.wildtype) = Len(call.mutant)

\* C20: for two strings of equal length that differ at k sites
\* enumerate_space returns a list that starts with the wildtype and holds the
\* 2^k strings carrying at each position the wildtype's or the mutant's symbol,
\* the mutant among them, each exactly once.
C20_EnumeratesTheBinarySpace ==
    EnumerateCall =>
      /\ ret.err = "none"
      /\ ret.val[1] = call.wildtype
      /\ Len(ret.val) = 2 ^ Cardinality(DifferingSites)
      /\ {ret.val[k] : k \in 1 .. Len(ret.val)} = BinarySpace
      /\ \E k \in 1 .. Len(ret.val) : ret.val[k] = call.mutant
      /\ \A j, k \in 1 .. Len(ret.val) : j # k => ret.val[j] # ret.val[k]

C20_Witness ==
    /\ EnumerateCall
    /\ Cardinality(DifferingSites) = 3
    /\ Len(call.wildtype) = 4
    /\ ret.err = "none"
    /\ Len(ret.val) = 8
    /\ ret.val[8] = call.mutant

\* ------------------------------------------ search.sequence_space
\* The frame of one call is kept in `call`: the arguments, the locals, and
\* the number of passes each while loop has made (saturating one above
\* max_iter + 1, the loops themselves not being cut).
\* latticeproteins is outside the repository: RandomSequence(length) is any
\* sequence of that length, fitness.Stability is a fixed function of the
\* sequence, and NMutants(sequence1, differby, max_iter) is a list of max_iter
\* sequences, each different from sequence1 at exactly differby sites.
\* The differby argument is None or Given(n), the number n given by the caller.
Given(n) == <<"int", n>>
hamming_distance(s1, s2) == Cardinality({p \in 1 .. Len(s1) : s1[p] # s2[p]})

SearchSequences == [1 .. 2 -> Alphabet]
Stabilities == {-100, 100}
Saturated(n, max_iter) == IF n > max_iter + 1 THEN max_iter + 2 ELSE n

NMutants(sequence1, differby, max_iter) ==
    [1 .. max_iter ->
        {m \in SearchSequences : hamming_distance(sequence1, m) = differby}]

InitSearch ==
    /\ \E differby \in {None} \cup {Given(n) : n \in 1 .. 3}, max_iter \in 1 .. MaxIter,
          Stability \in [SearchSequences -> Stabilities] :
         call = [fn |-> "none", length |-> 2, threshold |-> 0,
                 differby |-> differby, max_iter |-> max_iter,
                 Stability |-> Stability, energy |-> None, counter |-> None,
                 sequence |-> None, sequence1 |-> None, mutants |-> None,
                 passes1 |-> 0, passes2 |-> 0]
    /\ self = NoObject
    /\ nsets = 0
    /\ ret = NoRet
    /\ pc = "ready"

\* Lines 108-120: the check of differby, up to the first while.
SequenceSpaceEnter ==
    /\ pc = "ready"
    /\ "max_iter" \in DOMAIN call
    /\ UNCHANGED <<self, nsets>>
    /\ IF call.differby # None /\ call.differby[2] > call.length
       THEN /\ call' = [call EXCEPT !.fn = "search.sequence_space"]
            /\ ret' = Raise("differby cannot be larger than the length of the sequences.")
            /\ pc' = "done"
       ELSE /\ call' = [call EXCEPT
                          !.fn = "search.sequence_space",
                          !.differby = IF call.differby = None THEN call.length
                                       ELSE call.differby[2],
                          !.energy = call.threshold,
                          !.counter = -1]
            /\ ret' = NoRet
            /\ pc' = "loop1"

\* One pass of the first while (lines 121-127) and, when it ends the loop,
\* lines 129-133.  The pass does not change counter.
FirstSearchPass ==
    /\ pc = "loop1"
    /\ call.energy >= call.threshold
    /\ UNCHANGED <<self, nsets>>
    /\ \E sequence \in SearchSequences :
         IF call.counter >= call.max_iter
         THEN /\ call' = [call EXCEPT
                            !.sequence = sequence,
                            !.energy = call.Stability[sequence],
                            !.passes1 = Saturated(call.passes1 + 1, call.max_iter)]
              /\ ret' = Raise("Reached max iteration in search.")
              /\ pc' = "done"
         ELSE IF call.Stability[sequence] >= call.threshold
         THEN /\ call' = [call EXCEPT
                            !.sequence = sequence,
                            !.energy = call.Stability[sequence],
                            !.passes1 = Saturated(call.passes1 + 1, call.max_iter)]
              /\ ret' = NoRet
              /\ pc' = "loop1"
         ELSE \E mutants \in NMutants(sequence, call.differby, call.max_iter) :
              /\ call' = [call EXCEPT
                            !.sequence = sequence,
                            !.sequence1 = sequence,
                            !.energy = call.threshold,
                            !.counter = -1,
                            !.mutants = mutants,
                            !.passes1 = Saturated(call.passes1 + 1, call.max_iter)]
              /\ ret' = NoRet
              /\ pc' = "loop2"

\* One pass of the second while (lines 134-140) and, when it ends the loop,
\* lines 142-143.
SecondSearchPass ==
    /\ pc = "loop2"
    /\ call.energy >= call.threshold
    /\ UNCHANGED <<self, nsets>>
    /\ \E sequence \in SearchSequences :
         /\ call' = [call EXCEPT
                       !.counter = call.counter + 1,
                       !.sequence = sequence,
                       !.energy = call.Stability[sequence],
                       !.passes2 = Saturated(call.passes2 + 1, call.max_iter)]
         /\ IF call.counter + 1 >= call.max_iter
            THEN /\ ret' = Raise("Reached max iteration in search.")
                 /\ pc' = "done"
            ELSE IF call.Stability[sequence] >= call.threshold
            THEN /\ ret' = NoRet
                 /\ pc' = "loop2"
            ELSE /\ ret' = Ok(<<call.sequence1, At(call.mutants, call.counter + 1)>>)
                 /\ pc' = "done"

NextSearch ==
    \/ SequenceSpaceEnter
    \/ FirstSearchPass
    \/ SecondSearchPass

SpecSearch == InitSearch /\ [][NextSearch]_vars

SequenceSpaceReturned ==
    /\ "fn" \in DOMAIN call
    /\ call.fn = "search.sequence_space"
    /\ pc = "done"
    /\ ret.err = "none"

\* C21: whenever search.sequence_space returns, both returned sequences have
\* a stability below the threshold, and the second differs from the first at
\* exactly differby sites (all sites when differby was None).
C21_ReturnedPairIsBelowThreshold ==
    SequenceSpaceReturned =>
        /\ call.Stability[ret.val[1]] < call.threshold
        /\ call.Stability[ret.val[2]] < call.threshold
        /\ hamming_distance(ret.val[1], ret.val[2]) = call.differby

\* C27: each of the two search loops of search.sequence_space makes at most
\* max_iter passes; neither runs beyond that without raising.
C27_EachLoopMakesAtMostMaxIterAttempts ==
    ("fn" \in DOMAIN call /\ call.fn = "search.sequence_space") =>
        /\ call.passes1 <= call.max_iter
        /\ call.passes2 <= call.max_iter

\* ------------------------------------------ search.adaptive_walk
\* The float a stability stands for, in hundredths, for an ensemble of at most
\* two conformations at a positive temperature: E + T * log(exp(n / d)) is
\* E + T * n / d, and the degenerate minimum gives 0.
StabilityValue(s) ==
    IF s.kind = "zero" THEN 0
    ELSE LET w == CHOOSE x \in BagToSet(s.arg) : TRUE
         IN  s.E + (s.T * w[1]) \div w[2]

\* s1 < s2 for two such stabilities (a comparison with NaN is False).
stability_less(s1, s2) ==
    IF s1.kind = "nan" \/ s2.kind = "nan" THEN FALSE
    ELSE IF s1.kind = "-inf" THEN s2.kind # "-inf"
    ELSE IF s2.kind = "-inf" THEN FALSE
    ELSE IF s2.kind = "+inf" THEN s1.kind # "+inf"
    ELSE IF s1.kind = "+inf" THEN FALSE
    ELSE StabilityValue(s1) < StabilityValue(s2)

\* f > g for two values of fracfolded at the same positive temperature:
\* 1 / (1 + exp(s / T)) falls as s rises.
fracfolded_greater(f, g) == stability_less(f.s, g.s)

\* The ensembles of the walks: one or two conformations of three moves.
WalkConfLists == SeqsOf(ConfPool \ {None}, 1, 2)
WalkMutations == 0 .. 2
WalkTemperatures ==
    {t \in PositiveTemperatures : \A u \in PositiveTemperatures : t <= u}

InitWalk ==
    /\ \E sequence \in EnsembleSequences, conf_list \in WalkConfLists,
          temperature \in WalkTemperatures :
         self = new_LatticeThermodynamics(sequence, conf_list, temperature,
                                          miyazawa_jernigan)
    /\ \E n_mutations \in WalkMutations :
         call = [fn |-> "none", n_mutations |-> n_mutations]
    /\ ret = NoRet
    /\ pc = "ready"
    /\ nsets = 0

\* Lines 75-78, after the while loop: mlattice is bound by the loop body alone.
walk_exit(frame) ==
    IF frame.failed = 100 THEN Raise("No adaptive paths n_mutations away.")
    ELSE IF frame.mlattice = NoObject THEN Raise("UnboundLocalError")
    ELSE Ok(frame.mlattice)

\* The test of the while at line 51 on the locals, and what follows it.
WalkResume(frame) ==
    /\ call' = frame
    /\ IF frame.hamming < frame.n_mutations /\ frame.failed < 100
       THEN /\ ret' = NoRet
            /\ pc' = "walk"
       ELSE /\ ret' = walk_exit(frame)
            /\ pc' = "done"

\* Lines 39-51 on what reading lattice.fracfolded left (line 49).
WalkBegin(got) ==
    /\ self' = got.self
    /\ IF got.ret.err # "none"
       THEN /\ call' = [call EXCEPT !.fn = "search.adaptive_walk"]
            /\ ret' = got.ret
            /\ pc' = "done"
       ELSE WalkResume([fn |-> "search.adaptive_walk",
                        n_mutations |-> call.n_mutations,
                        wildtype |-> self.sequence,
                        mutant |-> self.sequence,
                        hamming |-> 0,
                        indices |-> [k \in 1 .. Len(self.sequence) |-> k - 1],
                        fracfolded |-> got.ret.val,
                        failed |-> 0,
                        mlattice |-> NoObject])

AdaptiveWalkEnter ==
    /\ pc = "ready"
    /\ "n_mutations" \in DOMAIN call
    /\ UNCHANGED nsets
    /\ IF Len(self.conf_list) > 10
       THEN /\ call' = [call EXCEPT !.fn = "search.adaptive_walk"]
            /\ ret' = Raise("too many conformations to compute in a reasonable time.")
            /\ pc' = "done"
            /\ UNCHANGED self
       ELSE WalkBegin(get_fracfolded(self))

\* Lines 65-72 on what reading mlattice.fracfolded left: got.self is mlattice.
WalkJudge(index, mutation, got) ==
    IF got.ret.err # "none"
    THEN /\ call' = [call EXCEPT !.mlattice = got.self]
         /\ ret' = got.ret
         /\ pc' = "done"
    ELSE IF /\ fracfolded_greater(got.ret.val, call.fracfolded)
            /\ get_native_conf(got.self).ret = get_native_conf(self).ret
    THEN WalkResume([call EXCEPT
                       !.mlattice = got.self,
                       !.indices = RemoveFirst(call.indices, index),
                       !.mutant = [call.mutant EXCEPT ![index + 1] = mutation],
                       !.hamming = hamming_distance(
                           call.wildtype,
                           [call.mutant EXCEPT ![index + 1] = mutation]),
                       !.fracfolded = got.ret.val])
    ELSE WalkResume([call EXCEPT !.mlattice = got.self,
                                 !.failed = call.failed + 1])

\* One pass of the while loop (lines 52-73) and, when it is the last one,
\* lines 75-78.  random.choice of an empty list raises IndexError.
AdaptiveWalkPass ==
    /\ pc = "walk"
    /\ UNCHANGED <<self, nsets>>
    /\ IF call.indices = <<>>
       THEN /\ ret' = Raise("IndexError")
            /\ pc' = "done"
            /\ UNCHANGED call
       ELSE \E k \in 1 .. Len(call.indices), mutation \in Alphabet :
              WalkJudge(call.indices[k], mutation,
                        get_fracfolded(new_LatticeThermodynamics(
                            [call.mutant EXCEPT ![call.indices[k] + 1] = mutation],
                            self.conf_list, self.temperature,
                            self.interaction_energies)))

NextWalk ==
    \/ AdaptiveWalkEnter
    \/ AdaptiveWalkPass

SpecWalk == InitWalk /\ [][NextWalk]_vars

AdaptiveWalkDone ==
    /\ "fn" \in DOMAIN call
    /\ call.fn = "search.adaptive_walk"
    /\ pc = "done"

\* C22: for a LatticeThermodynamics of at most 10 conformations and any
\* n_mutations >= 0, search.adaptive_walk either raises 'No adaptive paths
\* n_mutations away.' or returns a LatticeThermodynamics whose sequence is at
\* Hamming distance n_mutations from the starting sequence and whose native
\* conformation is the starting one.
C22_WalkReturnsOrFindsNoPath ==
    AdaptiveWalkDone =>
        \/ ret = Raise("No adaptive paths n_mutations away.")
        \/ /\ ret.err = "none"
           /\ hamming_distance(ret.val.sequence, self.sequence) = call.n_mutations
           /\ get_native_conf(ret.val).ret = get_native_conf(self).ret

\* The walk of lattice_contacts after its first i passes: x and y are the
\* indexes of residue i as the code holds them, before numpy resolves them.
walk_after(sequence, conformation, i, side) ==
    walk_loop(walk_start(sequence, side), SubSeq(sequence, 1, i + 1),
              conformation, 0, side)

OnGrid(idx, side) == idx >= 0 /\ idx <= side - 1

\* C23: in thermo.lattice_contacts, for a sequence of length L and L-1 moves,
\* residue 0 is placed at the center (L, L) of the (2L+1) x (2L+1) grid, and
\* every cell written or inspected as a neighbour has both indexes in 0..2L.
C23_WalkStaysOnTheGrid ==
    (/\ pc = "done"
     /\ call.fn = "thermo.lattice_contacts"
     /\ call.conformation # None
     /\ Len(call.conformation) = Len(call.sequence) - 1) =>
      LET L == Len(call.sequence)
          side == 2 * L + 1
      IN  /\ walk_start(call.sequence, side).x = L
          /\ walk_start(call.sequence, side).y = L
          /\ \A i \in 1 .. L - 1 :
               LET st == walk_after(call.sequence, call.conformation, i, side)
               IN  /\ OnGrid(st.x, side)
                   /\ OnGrid(st.y, side)
                   /\ \A k \in 1 .. 4 :
                        /\ OnGrid(st.x + coordinate_values[k][1], side)
                        /\ OnGrid(st.y + coordinate_values[k][2], side)

\* A call of thermo.lattice_contacts on a sequence over the table's alphabet
\* with exactly L - 1 moves, self-avoiding or not.
AnyWalkCall ==
    /\ pc = "done"
    /\ call.fn = "thermo.lattice_contacts"
    /\ OverAlphabet(call.sequence)
    /\ call.conformation # None
    /\ Len(call.conformation) = Len(call.sequence) - 1

\* The last residue (0-based) that the walk puts on the cell of residue i.
LastOn(conformation, i) ==
    CHOOSE j \in 0 .. Len(conformation) :
        /\ Cell(conformation, j) = Cell(conformation, i)
        /\ \A h \in 0 .. Len(conformation) :
              Cell(conformation, h) = Cell(conformation, i) => h <= j

\* C24: for every sequence over the table's alphabet and every string of L-1
\* moves, self-intersecting ones included, thermo.lattice_contacts returns a
\* list: a revisited cell holds the residue written last, and each of the L-1
\* bond removals finds an entry to delete.
C24_AnyWalkReturnsAList ==
    AnyWalkCall =>
      LET L == Len(call.sequence)
          side == 2 * L + 1
          st == walk_after(call.sequence, call.conformation, L - 1, side)
          before == candidates(call.sequence, call.conformation, side)
      IN  /\ ret.err = "none"
          /\ before.err = "none"
          /\ Len(ret.val) = Len(before.val) - (L - 1)
          /\ \A i \in 0 .. L - 1 :
               st.grid[<<Norm(RoundHalf(L) + Cell(call.conformation, i)[1], side),
                         Norm(RoundHalf(L) + Cell(call.conformation, i)[2], side)>>]
                 = At(call.sequence, LastOn(call.conformation, i))

C24_Witness ==
    /\ AnyWalkCall
    /\ ~SelfAvoiding(call.conformation)
    /\ ret.err = "none"
    /\ ret.val # <<>>

\* ------------------------------------------ svg.Configuration.rotate
\* ROTATE = {"U":"R", "R":"D", "D":"L", "L":"U"}
ROTATE == [c \in Moves |->
              CASE c = "U" -> "R"
                [] c = "R" -> "D"
                [] c = "D" -> "L"
                [] c = "L" -> "U"]

\* for i in range(n): configuration = "".join([ROTATE[c] for c in configuration])
RECURSIVE rotate_loop(_, _)
rotate_loop(configuration, n) ==
    IF n <= 0 THEN configuration
    ELSE rotate_loop([k \in 1 .. Len(configuration) |-> ROTATE[configuration[k]]],
                     n - 1)

\* Configuration.rotate: n = int(rotation/90), for a rotation >= 0.
rotate(configuration, rotation) ==
    <<rotate_loop(configuration, rotation \div 90), rotation>>

Rotations == {90, 180, 270}

\* The reflection of the lattice that swaps left and right.
Mirror == [c \in Moves |->
              CASE c = "L" -> "R"
                [] c = "R" -> "L"
                [] c = "U" -> "U"
                [] c = "D" -> "D"]

\* The conformation relabelled by a rotation, after a reflection or not.
Relabelled(conformation, rotation, mirrored) ==
    rotate(IF mirrored
           THEN [k \in 1 .. Len(conformation) |-> Mirror[conformation[k]]]
           ELSE conformation,
           rotation)[1]

\* The contacts of a result as a bag of unordered pairs.
UnorderedBag(contacts) ==
    [u \in {Unordered(contacts[k][1], contacts[k][2]) :
                k \in 1 .. Len(contacts)} |-> CountOf(contacts, u)]

\* The three rotations, and the reflection; every other reflection of the
\* lattice is this one followed by a rotation.
Relabellings == (Rotations \X {FALSE}) \cup {<<0, TRUE>>}

\* A call of the thermo scorer on a sequence with at least its L - 1 moves.
RelabelCall ==
    /\ ThermoScorerCall
    /\ call.conformation # None
    /\ Len(call.conformation) >= Len(call.sequence) - 1

\* C25: relabelling every move of a conformation by one rotation or reflection
\* of the lattice leaves the multiset of unordered contact pairs and the
\* fold_energy of every sequence unchanged.
C25_RelabellingKeepsContactsAndEnergy ==
    RelabelCall =>
      \A g \in Relabellings :
        LET other == Relabelled(call.conformation, g[1], g[2])
        IN  IF call.fn = "thermo.lattice_contacts"
            THEN /\ lattice_contacts(call.sequence, other).err = ret.err
                 /\ ret.err = "none" =>
                      UnorderedBag(lattice_contacts(call.sequence, other).val)
                        = UnorderedBag(ret.val)
            ELSE fold_energy(call.sequence, other, call.interactions) = ret

C25_Witness ==
    /\ RelabelCall
    /\ call.fn = "thermo.fold_energy"
    /\ ret.err = "none"
    /\ ret.val < 0
    /\ rotate(call.conformation, 90)[1] # call.conformation
    /\ WellFormedCall

\* The attribute in which each property keeps its value.
CacheOf ==
    [p \in {"energies", "partition_function", "stability", "folded", "fracfolded"} |->
        CASE p = "energies" -> "_energies"
          [] p = "partition_function" -> "_partition_sum"
          [] p = "stability" -> "_stability"
          [] p = "folded" -> "_folded"
          [] p = "fracfolded" -> "_fracfolded"]

\* C26: over any sequence of reads of an object's properties energy_list is
\* run at most once and the stability/folded pair is computed at most once,
\* and a later read of a property returns the value its first computation
\* stored: a stored value never changes and is what a read returns (stated
\* for a positive temperature).
C26_EachFieldIsComputedOnce ==
    [][self.temperature > 0 =>
         /\ call'.energy_list_runs <= 1
         /\ call'.stability_runs <= 1
         /\ \A p \in DOMAIN CacheOf :
              /\ HasAttr(self, CacheOf[p]) =>
                   /\ HasAttr(self', CacheOf[p])
                   /\ self'[CacheOf[p]] = self[CacheOf[p]]
              /\ (call'.fn = p /\ ret'.err = "none") =>
                   /\ HasAttr(self', CacheOf[p])
                   /\ ret'.val = self'[CacheOf[p]]]_vars

\* C28: utils.fold_energy and thermo.fold_energy with the default table are
\* equivalent: on every sequence over the table's alphabet and every
\* self-avoiding conformation of L-1 moves the utils functions return
\* normally, the energy is the one thermo.fold_energy returns and the contacts
\* are the multiset thermo.lattice_contacts returns.
C28_UtilsScorerEqualsThermoScorer ==
    (pc = "done" /\ WellFormedCall) =>
      /\ call.fn = "utils.lattice_contacts" =>
           /\ ret.err = "none"
           /\ lattice_contacts(call.sequence, call.conformation).err = "none"
           /\ UnorderedBag(ret.val) =
                UnorderedBag(lattice_contacts(call.sequence, call.conformation).val)
      /\ call.fn = "utils.fold_energy" =>
           /\ ret.err = "none"
           /\ ret = fold_energy(call.sequence, call.conformation, miyazawa_jernigan)

\* ------------------------------ fraction folded, in thermo.py and in gpm.py
\* LatticeGenotypePhenotypeMap.fracfolded on one stability:
\* 1 / (1 + np.exp(-stabilities/temperature)), the exponent being that of
\* 1 / (1 + exp(s/T)) for s the stability negated.
gpm_fracfolded_of(stability, temperature) ==
    [kind |-> "1/(1+exp(s/T))", s |-> -stability, T |-> temperature]

\* LatticeGenotypePhenotypeMap.fracfolded, over the array of the stabilities.
gpm_fracfolded(stabilities, temperature) ==
    Ok([k \in 1 .. Len(stabilities) |->
           gpm_fracfolded_of(stabilities[k], temperature)])

\* thermo.fracfolded_from_stability over an array of stabilities.
fracfolded_from_stabilities(stabilities, temperature) ==
    Ok([k \in 1 .. Len(stabilities) |->
           fracfolded_from_stability(stabilities[k], temperature).val])

\* Stabilities, in hundredths, and the arrays of one or two of them.
StabilityLevels == {100 * s : s \in -MaxTemp .. MaxTemp}
StabilityArrays == SeqsOf(StabilityLevels, 1, 2)

InitFraction ==
    /\ \E stabilities \in StabilityArrays, temperature \in PositiveTemperatures :
         call = [fn |-> "none", stabilities |-> stabilities,
                 temperature |-> temperature]
    /\ self = NoObject
    /\ nsets = 0
    /\ ret = NoRet
    /\ pc = "ready"

CallFracfoldedFromStability ==
    /\ pc = "ready"
    /\ "stabilities" \in DOMAIN call
    /\ call' = [call EXCEPT !.fn = "thermo.fracfolded_from_stability"]
    /\ ret' = fracfolded_from_stabilities(call.stabilities, call.temperature)
    /\ pc' = "done"
    /\ UNCHANGED <<self, nsets>>

CallGpmFracfolded ==
    /\ pc = "ready"
    /\ "stabilities" \in DOMAIN call
    /\ call' = [call EXCEPT !.fn = "gpm.fracfolded"]
    /\ ret' = gpm_fracfolded(call.stabilities, call.temperature)
    /\ pc' = "done"
    /\ UNCHANGED <<self, nsets>>

NextFraction ==
    \/ CallFracfoldedFromStability
    \/ CallGpmFracfolded

SpecFraction == InitFraction /\ [][NextFraction]_vars

\* C29: for the same stabilities and temperature thermo.fracfolded_from_stability
\* and LatticeGenotypePhenotypeMap.fracfolded return the same value,
\* 1 / (1 + exp(stability / temperature)).
C29_TwoFractionsFoldedAgree ==
    (pc = "done" /\ "stabilities" \in DOMAIN call) =>
      /\ ret = fracfolded_from_stabilities(call.stabilities, call.temperature)
      /\ ret = gpm_fracfolded(call.stabilities, call.temperature)
      /\ \A k \in 1 .. Len(call.stabilities) :
           ret.val[k].s = call.stabilities[k] /\ ret.val[k].T = call.temperature

\* The read of the property `name` on obj.
get_property(obj, name) ==
    CASE name = "energies" -> get_energies(obj)
      [] name = "partition_function" -> get_partition_function(obj)
      [] name = "stability" -> get_stability(obj)
      [] name = "folded" -> get_folded(obj)
      [] name = "fracfolded" -> get_fracfolded(obj)

\* What the property gives as the first read of a facade built from the same
\* sequence, conformation list, temperature and table.
FirstRead(name) ==
    get_property(new_LatticeThermodynamics(self.sequence, self.conf_list,
                                           self.temperature,
                                           self.interaction_energies), name).ret

\* C30: the value a property returns does not depend on the reads made before:
\* after any reads it is what the property returns as the first read of a
\* facade built from the same arguments; and the stored stability and folded
\* are the pair of one computation (stated for a positive temperature).
C30_ReadsAreOrderIndependent ==
    self.temperature > 0 =>
      /\ (pc = "done" /\ call.fn \in DOMAIN CacheOf) => ret = FirstRead(call.fn)
      /\ HasAttr(self, "_stability") <=> HasAttr(self, "_folded")
      /\ HasAttr(self, "_stability") =>
           /\ HasAttr(self, "_energies")
           /\ Ok(<<self["_stability"], self["_folded"]>>) =
                 stability_from_energies(self["_energies"], self.temperature)

====
